---- MODULE Spec2Model ----
(***************************************************************************)
(* Ref bindings of packages/runtime/src/binding/ref.ts.                    *)
(*                                                                         *)
(* Several Ref bindings share one source expression.  The expression is an *)
(* assignable location per scope: evaluate reads it, assign writes it; it  *)
(* may expose a bind hook and an unbind hook.  Every call into the         *)
(* expression may throw.  $bind and $unbind run synchronously, so each is  *)
(* one action; the statements it executed, with the $state and $scope      *)
(* they left, are kept in last.log.                                        *)
(***************************************************************************)
EXTENDS Integers, Sequences, FiniteSets, TLC

NumBindings == 2
NumScopes == 2

Bindings == 1..NumBindings
Scopes == 1..NumScopes
\* every binding may have a target of its own
Targets == 1..NumBindings

\* the JavaScript values null and undefined; scopes and targets are 1, 2, ...
Null == 0
Undefined == 0 - 1

\* LifecycleState
none == 0
isBinding == 1
isBound == 2
isUnbinding == 4

VARIABLES
    state,          \* state[b]: this.$state of binding b
    scope,          \* scope[b]: this.$scope of binding b
    target,         \* target[b]: this.target of binding b
    value,          \* value[s]: what the source expression evaluates to against scope s
    hasBindHook,    \* hasBind(sourceExpression)
    hasUnbindHook,  \* hasUnbind(sourceExpression)
    writer,         \* writer[s]: the binding whose $bind assigned the value held against s
                    \* (0: the value is the initial one or the null of an $unbind)
    hookScope,      \* hookScope[b]: the scope of b's bind-hook call that awaits its unbind hook
    lastAssigner,   \* lastAssigner[s]: the binding whose $bind most recently assigned against s,
                    \* bound or not by now (0: none yet; Untracked: not recorded)
    assertion,      \* the latest call of throws / doesNotThrow: its arguments and how it ended
    last            \* the latest call: operation, binding, argument, outcome, statements run

vars == <<state, scope, target, value, hasBindHook, hasUnbindHook,
          writer, hookScope, lastAssigner, assertion, last>>

----------------------------------------------------------------------------
\* bit operations on $state, for single-bit masks

\* x & bit
HasBit(x, bit) == (x \div bit) % 2 = 1

\* x |= bit
BitOr(x, bit) == IF HasBit(x, bit) THEN x ELSE x + bit

\* x &= ~bit
BitClear(x, bit) == IF HasBit(x, bit) THEN x - bit ELSE x

----------------------------------------------------------------------------
\* the source expression

\* sourceExpression.evaluate(flags, s, locator)
evaluate(val, s) == val[s]

\* sourceExpression.assign(flags, s, locator, v)
assign(val, s, v) == [val EXCEPT ![s] = v]

----------------------------------------------------------------------------
\* One call runs on a machine: the program state, the statements run so far
\* (log), the number of calls made into the expression (calls) and whether
\* one of them threw.  f is the number of the expression call that throws
\* (0: none throws).

\* the most recent assigner is not recorded
Untracked == 0 - 1

Machine ==
    [st |-> state, sc |-> scope, val |-> value, wr |-> writer,
     hsc |-> hookScope, la |-> lastAssigner,
     log |-> <<>>, calls |-> 0, threw |-> FALSE]

\* a log entry: the statement, $state and $scope after it (for a call into the
\* expression: when it is made), the scope argument and the value read or
\* written by a call, and whether the call threw
Entry(step, m, b, arg, v, thrown) ==
    [step |-> step, st |-> m.st[b], sc |-> m.sc[b], arg |-> arg, v |-> v,
     thrown |-> thrown]

\* a call that carries on after a throw
Skipped_Never(m) == FALSE

\* after a throw no later statement of the call runs
Skipped(m) == m.threw

\* a statement that is not a call into the expression
Stmt(m, b, step, st2, sc2) ==
    IF Skipped(m) THEN m
    ELSE LET m2 == [m EXCEPT !.st[b] = st2, !.sc[b] = sc2]
         IN  [m2 EXCEPT !.log = Append(m.log, Entry(step, m2, b, Null, Null, FALSE))]

\* a call into the expression; m2 is the machine if the call returns normally.
\* The call throws when it is the f-th one, or when its scope is null or
\* undefined.
Call(m, b, f, step, arg, v, m2) ==
    IF Skipped(m) THEN m
    ELSE IF m.calls + 1 = f \/ arg \notin Scopes
         THEN [m EXCEPT !.calls = m.calls + 1, !.threw = TRUE,
                        !.log = Append(m.log, Entry(step, m, b, arg, v, TRUE))]
         ELSE [m2 EXCEPT !.calls = m.calls + 1,
                         !.log = Append(m.log, Entry(step, m, b, arg, v, FALSE))]

----------------------------------------------------------------------------
\* Ref.$unbind

\* an $unbind without its early return
NotBound_Never(st) == FALSE

\* if (!(this.$state & LifecycleState.isBound)) return
NotBound(st) == ~HasBit(st, isBound)

\* an $unbind that does not announce itself
SetUnbinding_Missing(m, b) ==
    Stmt(m, b, "setUnbinding", m.st[b], m.sc[b])

\* this.$state |= LifecycleState.isUnbinding
SetUnbinding(m, b) ==
    Stmt(m, b, "setUnbinding", BitOr(m.st[b], isUnbinding), m.sc[b])

\* this.sourceExpression.evaluate(flags, this.$scope, this.locator)
EvaluateCall(m, b, f) ==
    Call(m, b, f, "evaluate", m.sc[b],
         IF m.sc[b] \in Scopes THEN evaluate(m.val, m.sc[b]) ELSE Undefined, m)

\* the clear without its guard
GuardHolds_Always(v, t) == TRUE

\* an $unbind that never clears
GuardHolds_Never(v, t) == FALSE

\* ... === this.target
GuardHolds(v, t) == v = t

\* a clear that is called and writes nothing
AssignNullCall_Dropped(m, b, f) ==
    Call(m, b, f, "assignNull", m.sc[b], Null, m)

\* this.sourceExpression.assign(flags, this.$scope, this.locator, null)
AssignNullCall(m, b, f) ==
    Call(m, b, f, "assignNull", m.sc[b], Null,
         [m EXCEPT !.val = assign(m.val, m.sc[b], Null),
                   !.wr[m.sc[b]] = 0])

\* sourceExpression.unbind(flags, this.$scope, this)
UnbindHookCall(m, b, f) ==
    Call(m, b, f, "unbindHook", m.sc[b], Null,
         [m EXCEPT !.hsc[b] = Null])

\* this.$scope = null
ClearScope(m, b) == Stmt(m, b, "clearScope", m.st[b], Null)

\* an $unbind that clears isUnbinding only
ClearBoundAndUnbinding_BoundKept(m, b) ==
    Stmt(m, b, "clearBoundAndUnbinding", BitClear(m.st[b], isUnbinding), m.sc[b])

\* this.$state &= ~(LifecycleState.isBound | LifecycleState.isUnbinding)
ClearBoundAndUnbinding(m, b) ==
    Stmt(m, b, "clearBoundAndUnbinding",
         BitClear(BitClear(m.st[b], isBound), isUnbinding), m.sc[b])

Ref_unbind(m, b, f) ==
    IF NotBound(m.st[b]) THEN m
    ELSE LET m1 == SetUnbinding(m, b)
             m2 == EvaluateCall(m1, b, f)
             m3 == IF ~Skipped(m2) /\ GuardHolds(evaluate(m2.val, m2.sc[b]), target[b])
                   THEN AssignNullCall(m2, b, f) ELSE m2
             m4 == IF hasUnbindHook THEN UnbindHookCall(m3, b, f) ELSE m3
             m5 == ClearScope(m4, b)
         IN  ClearBoundAndUnbinding(m5, b)

----------------------------------------------------------------------------
\* Ref.$bind

\* a rebind that never takes the same-scope return
SameScope_Never(sc, s) == FALSE

\* if (this.$scope === scope) return
SameScope(sc, s) == sc = s

\* a rebind that does not unbind the old scope
UnbindFirst_Skipped(m, b, f) == m

\* this.$unbind(flags), when bound to another scope
UnbindFirst(m, b, f) == Ref_unbind(m, b, f)

\* a $bind that does not mark the binding as binding
SetBinding_Missing(m, b) == Stmt(m, b, "setBinding", m.st[b], m.sc[b])

\* this.$state |= LifecycleState.isBinding
SetBinding(m, b) == Stmt(m, b, "setBinding", BitOr(m.st[b], isBinding), m.sc[b])

\* this.$scope = scope
SetScope(m, b, s) == Stmt(m, b, "setScope", m.st[b], s)

\* sourceExpression.bind(flags, scope, this)
BindHookCall(m, b, s, f) ==
    Call(m, b, f, "bindHook", s, Null,
         [m EXCEPT !.hsc[b] = IF hasUnbindHook THEN s ELSE Null])

\* this.sourceExpression.assign(flags, this.$scope, this.locator, this.target)
AssignTargetCall(m, b, f) ==
    Call(m, b, f, "assign", m.sc[b], target[b],
         [m EXCEPT !.val = assign(m.val, m.sc[b], target[b]),
                   !.wr[m.sc[b]] = b,
                   !.la[m.sc[b]] = IF m.la[m.sc[b]] = Untracked THEN Untracked ELSE b])

\* this.$state |= LifecycleState.isBound
SetBound(m, b) == Stmt(m, b, "setBound", BitOr(m.st[b], isBound), m.sc[b])

\* a $bind that leaves isBinding set
ClearBinding_Kept(m, b) == Stmt(m, b, "clearBinding", m.st[b], m.sc[b])

\* this.$state &= ~LifecycleState.isBinding
ClearBinding(m, b) == Stmt(m, b, "clearBinding", BitClear(m.st[b], isBinding), m.sc[b])

Ref_bind(m, b, s, f) ==
    IF HasBit(m.st[b], isBound) /\ SameScope(m.sc[b], s) THEN m
    ELSE LET m0 == IF HasBit(m.st[b], isBound) THEN UnbindFirst(m, b, f) ELSE m
             m1 == SetBinding(m0, b)
             m2 == SetScope(m1, b, s)
             m3 == IF hasBindHook THEN BindHookCall(m2, b, s, f) ELSE m2
             m4 == AssignTargetCall(m3, b, f)
             m5 == SetBound(m4, b)
         IN  ClearBinding(m5, b)

----------------------------------------------------------------------------
\* Ref.observeProperty and Ref.handleChange: empty bodies

\* public observeProperty(obj, propertyName): void { }
Ref_observeProperty(m, b, obj, propertyName) == m

\* a handleChange that pushes the new value into the expression, as the
\* bindings that react to changes do
Ref_handleChange_Assigns(m, b, newValue, previousValue) ==
    IF m.sc[b] \in Scopes
    THEN [m EXCEPT !.val = assign(m.val, m.sc[b], newValue)]
    ELSE m

\* public handleChange(newValue, previousValue, flags): void { }
Ref_handleChange(m, b, newValue, previousValue) == m

----------------------------------------------------------------------------
\* assert.js: throws and doesNotThrow

\* what a function under test throws: a primitive string, or an error object
\* given by its class name and its message
ErrorNames == {"Error", "TypeError"}
Texts == {"a", "b"}
ThrownValues ==
    [prim : {TRUE}, name : {"String"}, message : Texts]
        \cup [prim : {FALSE}, name : ErrorNames, message : Texts]

\* const noException = Symbol('noException')
noException == [prim |-> TRUE, name |-> "Symbol", message |-> "noException"]

\* new AssertionError({ message, ... }); of a generated text only the fixed
\* beginning is kept
AssertionError(text) == [prim |-> FALSE, name |-> "AssertionError", message |-> text]

\* the text AssertionError generates for operator 'deepStrictEqual' without a message
ComparisonText == "Expected values to be strictly deep-equal"

\* a function under test, by what a call of it does
FnBehaviours ==
    {[throws |-> FALSE, value |-> noException]}
        \cup {[throws |-> TRUE, value |-> v] : v \in ThrownValues}

\* an argument of throws / doesNotThrow: undefined, a string, an Error object
\* (as message), a regular expression, an object { message: arg }, an error
\* class, or a validation function that returns true, returns false or throws
UndefinedArg == [kind |-> "undefined", arg |-> ""]
Matchers ==
    {UndefinedArg}
        \cup [kind : {"string", "regexp", "object"}, arg : Texts]
        \cup [kind : {"class"}, arg : ErrorNames]
        \cup [kind : {"validator"}, arg : {"true", "false", "throws"}]
Messages ==
    {UndefinedArg, [kind |-> "string", arg |-> "m"], [kind |-> "error", arg |-> "m"]}

\* the Error object passed as message, and what a throwing validator throws
MessageError(message) == [prim |-> FALSE, name |-> "Error", message |-> message.arg]
ValidatorError == [prim |-> FALSE, name |-> "Error", message |-> "validator"]

\* how a call ends: it returns ret, or it throws exc
Return(ret) == [threw |-> FALSE, ret |-> ret, exc |-> noException]
Throw(exc) == [threw |-> TRUE, ret |-> FALSE, exc |-> exc]

isString(x) == x.kind = "string"
isRegExp(x) == x.kind = "regexp"
isFunction(x) == x.kind \in {"class", "validator"}
isError(x) == x.kind = "error"
isPrimitive(actual) == actual.prim
Truthy(x) == x.kind # "undefined"

\* function innerFail(obj), by obj.message
innerFail(message) ==
    IF isError(message) THEN Throw(MessageError(message))
    ELSE Throw(AssertionError(message.arg))

\* function compareExceptionKey(actual, expected, key, message, keys), for the
\* key 'message' of an object that is not primitive
compareExceptionKey(actual, expected, message) ==
    IF actual.message # expected.arg
    THEN IF ~Truthy(message) THEN Throw(AssertionError(ComparisonText))
         ELSE innerFail(message)
    ELSE Return(TRUE)

\* actual instanceof expected, for an error class
InstanceOf(actual, expected) ==
    /\ ~actual.prim
    /\ expected.arg = "Error" \/ actual.name = expected.arg

\* function expectedException(actual, expected, msg)
expectedException(actual, expected, msg) ==
    IF ~isFunction(expected)
    THEN IF isRegExp(expected) THEN Return(expected.arg = actual.message)
         ELSE IF isPrimitive(actual)
              THEN Throw(AssertionError(IF Truthy(msg) THEN msg.arg ELSE ComparisonText))
              ELSE compareExceptionKey(actual, expected, msg)
    ELSE IF expected.kind = "class"
         THEN Return(InstanceOf(actual, expected))
         ELSE IF expected.arg = "throws" THEN Throw(ValidatorError)
              ELSE Return(expected.arg = "true")

\* function getActual(fn)
getActual(fn) == IF fn.throws THEN fn.value ELSE noException

\* function expectsError(stackStartFn, actual, error, message)
expectsError(stackStartFn, actual, error0, message0) ==
    LET message == IF isString(error0) THEN error0 ELSE message0
        error == IF isString(error0) THEN UndefinedArg ELSE error0
    IN  IF actual = noException
        THEN innerFail([kind |-> "string", arg |-> "Missing expected exception"])
        ELSE IF Truthy(error)
             THEN LET r == expectedException(actual, error, message)
                  IN  IF r.threw THEN r
                      ELSE IF r.ret = FALSE THEN Throw(actual) ELSE Return(TRUE)
             ELSE Return(TRUE)

\* function expectsNoError(stackStartFn, actual, error, message)
expectsNoError(stackStartFn, actual, error0, message0) ==
    IF actual = noException THEN Return(TRUE)
    ELSE LET message == IF isString(error0) THEN error0 ELSE message0
             error == IF isString(error0) THEN UndefinedArg ELSE error0
             r == IF Truthy(error) THEN expectedException(actual, error, UndefinedArg)
                  ELSE Return(TRUE)
         IN  IF r.threw THEN r
             ELSE IF r.ret
                  THEN innerFail([kind |-> "string", arg |-> "Got unwanted exception"])
                  ELSE Throw(actual)

\* export function throws(fn, errorMatcher, message)
throws(fn, errorMatcher, message) ==
    expectsError("throws", getActual(fn), errorMatcher, message)

\* export function doesNotThrow(fn, errorMatcher, message)
doesNotThrow(fn, errorMatcher, message) ==
    expectsNoError("doesNotThrow", getActual(fn), errorMatcher, message)

\* no assertion has been called yet
NoAssertion ==
    [op |-> "none", fn |-> [throws |-> FALSE, value |-> noException],
     errorMatcher |-> UndefinedArg, message |-> UndefinedArg, result |-> Return(TRUE)]

----------------------------------------------------------------------------
\* the state machine

\* targets are interchangeable objects and so are the bindings: the bindings
\* are numbered so that those sharing a target are neighbours, the targets in
\* order of first use
InitTargets ==
    {t \in [Bindings -> Targets] :
        \A b \in Bindings :
            IF b = 1 THEN t[b] = 1 ELSE t[b - 1] \in {t[b] - 1, t[b]}}

\* new Ref(sourceExpression, target, locator): $state is none, $scope has no
\* initializer
Init ==
    /\ state = [b \in Bindings |-> none]
    /\ scope = [b \in Bindings |-> Undefined]
    /\ target \in InitTargets
    /\ value = [s \in Scopes |-> Undefined]
    /\ hasBindHook \in BOOLEAN
    /\ hasUnbindHook \in BOOLEAN
    /\ writer = [s \in Scopes |-> 0]
    /\ hookScope = [b \in Bindings |-> Null]
    /\ lastAssigner = [s \in Scopes |-> Untracked]
    /\ assertion = NoAssertion
    /\ last = [op |-> "new", b |-> 0, arg |-> Null, threw |-> FALSE, log |-> <<>>]

Commit(m, op, b, arg) ==
    /\ state' = m.st
    /\ scope' = m.sc
    /\ value' = m.val
    /\ writer' = m.wr
    /\ hookScope' = m.hsc
    /\ lastAssigner' = m.la
    /\ last' = [op |-> op, b |-> b, arg |-> arg, threw |-> m.threw, log |-> m.log]
    /\ UNCHANGED <<target, hasBindHook, hasUnbindHook, assertion>>

\* binding.$bind(flags, s) returns normally
Bind(b, s) ==
    LET m == Ref_bind(Machine, b, s, 0)
    IN  ~m.threw /\ Commit(m, "bind", b, s)

\* binding.$unbind(flags) returns normally
Unbind(b) ==
    LET m == Ref_unbind(Machine, b, 0)
    IN  ~m.threw /\ Commit(m, "unbind", b, Null)

\* binding.$bind(flags, s) in which the f-th call into the expression throws
BindThrows(b, s, f) ==
    LET m == Ref_bind(Machine, b, s, f)
    IN  m.threw /\ Commit(m, "bind", b, s)

\* binding.$unbind(flags) in which the f-th call into the expression throws
UnbindThrows(b, f) ==
    LET m == Ref_unbind(Machine, b, f)
    IN  m.threw /\ Commit(m, "unbind", b, Null)

\* scopes are interchangeable objects: a scope that no binding holds and that
\* the expression was never assigned against is the next unused number
InUse(s) == value[s] # Undefined \/ \E b \in Bindings : scope[b] = s
ScopeArgs == {s \in Scopes : InUse(s) \/ \A r \in Scopes : r < s => InUse(r)}

\* the calls into the expression a call makes when none of them throws
FaultPoints(m) == 1..m.calls

Next ==
    \/ \E b \in Bindings, s \in ScopeArgs : Bind(b, s)
    \/ \E b \in Bindings : Unbind(b)

Spec == Init /\ [][Next]_vars

\* one binding, any of whose calls into the expression may throw
NextFault ==
    \/ \E s \in ScopeArgs : Bind(1, s)
    \/ Unbind(1)
    \/ \E s \in ScopeArgs :
          \E f \in FaultPoints(Ref_bind(Machine, 1, s, 0)) : BindThrows(1, s, f)
    \/ \E f \in FaultPoints(Ref_unbind(Machine, 1, 0)) : UnbindThrows(1, f)

SpecFault == Init /\ [][NextFault]_vars

\* the values and property names the change callbacks are called with
ChangeValues == Targets \cup {Null, Undefined}
PropertyNames == {"a", "b"}

\* binding.handleChange(newValue, previousValue, flags)
HandleChange(b, newValue, previousValue) ==
    Commit(Ref_handleChange(Machine, b, newValue, previousValue),
           "handleChange", b, newValue)

\* binding.observeProperty(obj, propertyName)
ObserveProperty(b, obj, propertyName) ==
    Commit(Ref_observeProperty(Machine, b, obj, propertyName),
           "observeProperty", b, obj)

\* bindings with pairwise distinct targets, with the most recent assigner of
\* every scope recorded
InitDistinct ==
    /\ state = [b \in Bindings |-> none]
    /\ scope = [b \in Bindings |-> Undefined]
    /\ target = [b \in Bindings |-> b]
    /\ value = [s \in Scopes |-> Undefined]
    /\ hasBindHook \in BOOLEAN
    /\ hasUnbindHook \in BOOLEAN
    /\ writer = [s \in Scopes |-> 0]
    /\ hookScope = [b \in Bindings |-> Null]
    /\ lastAssigner = [s \in Scopes |-> 0]
    /\ assertion = NoAssertion
    /\ last = [op |-> "new", b |-> 0, arg |-> Null, threw |-> FALSE, log |-> <<>>]

SpecDistinct == InitDistinct /\ [][Next]_vars

\* a test calls throws(fn, errorMatcher, message)
Throws(fn, errorMatcher, message) ==
    /\ assertion' = [op |-> "throws", fn |-> fn, errorMatcher |-> errorMatcher,
                     message |-> message,
                     result |-> throws(fn, errorMatcher, message)]
    /\ UNCHANGED <<state, scope, target, value, hasBindHook, hasUnbindHook,
                   writer, hookScope, lastAssigner, last>>

\* a test calls doesNotThrow(fn, errorMatcher, message)
DoesNotThrow(fn, errorMatcher, message) ==
    /\ assertion' = [op |-> "doesNotThrow", fn |-> fn, errorMatcher |-> errorMatcher,
                     message |-> message,
                     result |-> doesNotThrow(fn, errorMatcher, message)]
    /\ UNCHANGED <<state, scope, target, value, hasBindHook, hasUnbindHook,
                   writer, hookScope, lastAssigner, last>>

\* the assertions, called with any function, matcher and message
NextExpect ==
    \/ \E fn \in FnBehaviours, errorMatcher \in Matchers, message \in Messages :
          Throws(fn, errorMatcher, message)
    \/ \E fn \in FnBehaviours, errorMatcher \in Matchers, message \in Messages :
          DoesNotThrow(fn, errorMatcher, message)

SpecExpect == Init /\ [][NextExpect]_vars

\* one binding, any of whose calls into the expression may throw, and whose
\* change callbacks are called in between
NextChange ==
    \/ \E s \in ScopeArgs : Bind(1, s)
    \/ Unbind(1)
    \/ \E s \in ScopeArgs :
          \E f \in FaultPoints(Ref_bind(Machine, 1, s, 0)) : BindThrows(1, s, f)
    \/ \E f \in FaultPoints(Ref_unbind(Machine, 1, 0)) : UnbindThrows(1, f)
    \/ \E newValue, previousValue \in ChangeValues :
          HandleChange(1, newValue, previousValue)
    \/ \E obj \in Scopes, propertyName \in PropertyNames :
          ObserveProperty(1, obj, propertyName)

SpecChange == Init /\ [][NextChange]_vars

TypeOK ==
    /\ state \in [Bindings -> 0..7]
    /\ scope \in [Bindings -> Scopes \cup {Null, Undefined}]
    /\ target \in [Bindings -> Targets]
    /\ value \in [Scopes -> Targets \cup {Null, Undefined}]
    /\ writer \in [Scopes -> Bindings \cup {0}]
    /\ hookScope \in [Bindings -> Scopes \cup {Null}]
    /\ lastAssigner \in [Scopes -> Bindings \cup {0, Untracked}]

----------------------------------------------------------------------------
\* properties

IsBound(b) == HasBit(state[b], isBound)

\* the positions of a statement in a log
At(log, step) == {i \in DOMAIN log : log[i].step = step}

\* the latest call is binding.$bind(flags, s) / binding.$unbind(flags)
IsBind(l, b, s) == l.op = "bind" /\ l.b = b /\ l.arg = s
IsUnbind(l, b) == l.op = "unbind" /\ l.b = b

\* C1: $unbind on a bound binding b, when no call into the expression throws,
\* assigns null to the expression exactly when the expression, evaluated
\* against b's scope, is b.target; otherwise
\* the expression keeps its value (so an earlier binding's unbind leaves a
\* later binding's target in place, and bind then unbind leaves null, not
\* b.target).  Other scopes are not written.
C1_GuardedClear ==
    [][\A b \in Bindings :
         (IsUnbind(last', b) /\ ~last'.threw /\ IsBound(b)) =>
            LET s == scope[b]
            IN  /\ value[s] = target[b] => value'[s] = Null /\ value'[s] # target[b]
                /\ value[s] # target[b] => value'[s] = value[s]
                /\ (At(last'.log, "assignNull") # {}) <=> (value[s] = target[b])
                /\ \A r \in Scopes \ {s} : value'[r] = value[r]
      ]_vars

\* an unbind has found another binding's target in the expression and left it
C1_Witness ==
    /\ last.op = "unbind"
    /\ At(last.log, "assignNull") = {}
    /\ \E i \in At(last.log, "evaluate") :
          /\ last.log[i].v \in Targets
          /\ last.log[i].v # target[last.b]
          /\ value[last.log[i].arg] = last.log[i].v

\* C2: b1 and b2 are bound to the same scope and the expression holds the
\* value b2's $bind assigned, so b2 was bound after b1; then unbinding b1
\* leaves b2.target in the expression, whatever the two targets are.
C2_NewerValueKept ==
    [][\A b1, b2 \in Bindings :
         (/\ b1 # b2
          /\ IsUnbind(last', b1)
          /\ IsBound(b1) /\ IsBound(b2)
          /\ scope[b1] = scope[b2]
          /\ writer[scope[b2]] = b2
          /\ value[scope[b2]] = target[b2]) =>
            value'[scope[b2]] = target[b2]
      ]_vars

\* C3: a $bind(flags, s) that gets past the same-scope return and returns
\* normally leaves the expression at s equal to target, $scope = s, isBound
\* set and isBinding clear.
C3_BindPostcondition ==
    [][\A b \in Bindings, s \in Scopes :
         (IsBind(last', b, s) /\ ~last'.threw /\ ~(IsBound(b) /\ scope[b] = s)) =>
            /\ evaluate(value', s) = target[b]
            /\ scope'[b] = s
            /\ HasBit(state'[b], isBound)
            /\ ~HasBit(state'[b], isBinding)
      ]_vars

\* a binding has been rebound from another scope and holds the postcondition
C3_Witness ==
    /\ last.op = "bind" /\ ~last.threw
    /\ At(last.log, "clearScope") # {}
    /\ value[last.arg] = target[last.b]
    /\ scope[last.b] = last.arg
    /\ state[last.b] = isBound

\* C4: $bind(flags, s) on a binding that is bound to s changes neither $state
\* nor $scope nor the expression, and runs no statement: no bind hook, no
\* assign, no unbind.
C4_SameScopeNoOp ==
    [][\A b \in Bindings, s \in Scopes :
         (IsBind(last', b, s) /\ IsBound(b) /\ scope[b] = s) =>
            /\ state' = state /\ scope' = scope /\ value' = value
            /\ last'.log = <<>>
            /\ ~last'.threw
      ]_vars

\* a bound binding has been bound again to its scope
C4_Witness ==
    /\ last.op = "bind" /\ last.log = <<>>
    /\ IsBound(last.b) /\ scope[last.b] = last.arg
    /\ value[last.arg] = target[last.b]

\* C5: for b bound to a scope other than s, $bind(flags, s) ends in the $state,
\* $scope and expression values of $unbind(flags) followed by $bind(flags, s),
\* and runs the same statements in the same order: the whole $unbind (guarded
\* clear, unbind hook with the old scope) before the first statement of the
\* bind against s.
C5_RebindIsUnbindThenBind ==
    [][\A b \in Bindings, s \in Scopes :
         (IsBind(last', b, s) /\ ~last'.threw /\ IsBound(b) /\ scope[b] # s) =>
            LET u == Ref_unbind(Machine, b, 0)
                alt == Ref_bind(u, b, s, 0)
            IN  /\ state' = alt.st /\ scope' = alt.sc /\ value' = alt.val
                /\ last'.log = alt.log
                /\ SubSeq(last'.log, 1, Len(u.log)) = u.log
                /\ u.st[b] = none /\ u.sc[b] = Null
                /\ \A i \in At(last'.log, "setBinding") : i = Len(u.log) + 1
                /\ \A i \in At(last'.log, "unbindHook") : last'.log[i].arg = scope[b]
      ]_vars

\* a rebind to another scope has cleared the binding's target at the old scope
C5_Witness ==
    /\ last.op = "bind" /\ ~last.threw
    /\ \E i \in At(last.log, "assignNull") :
          /\ last.log[i].arg # last.arg
          /\ value[last.log[i].arg] = Null
    /\ value[last.arg] = target[last.b]

\* C6: $unbind on a binding whose isBound bit is clear does not throw, runs no
\* statement (no evaluate, no assign, no unbind hook) and changes neither
\* $state nor $scope nor the expression; an $unbind that returns normally
\* leaves isBound clear, so a second $unbind is such a call.
C6_UnbindUnboundNoOp ==
    [][\A b \in Bindings :
         /\ (IsUnbind(last', b) /\ ~IsBound(b)) =>
               /\ ~last'.threw
               /\ last'.log = <<>>
               /\ state' = state /\ scope' = scope /\ value' = value
         /\ (IsUnbind(last', b) /\ ~last'.threw) => ~HasBit(state'[b], isBound)
      ]_vars

\* a never-bound binding has been unbound
C6_Witness ==
    /\ last.op = "unbind" /\ last.log = <<>> /\ ~last.threw
    /\ state[last.b] = none /\ scope[last.b] = Undefined

\* C7: $scope !== null exactly when the isBound bit is set.
C7_ScopeIffBound ==
    \A b \in Bindings : (scope[b] # Null) <=> HasBit(state[b], isBound)

\* the calls into the source expression made by $unbind and by $bind itself
UnbindCalls == {"evaluate", "assignNull", "unbindHook"}
BindCalls == {"bindHook", "assign"}

\* once isBinding has been set in a $bind, no statement leaves isBinding and
\* isBound both clear
NeverBothClear(log) ==
    \A i \in At(log, "setBinding") : \A j \in DOMAIN log :
        j >= i => HasBit(log[j].st, isBinding) \/ HasBit(log[j].st, isBound)

\* C8 as stated: in a $bind that gets past the same-scope return, every call
\* into the expression sees isBinding set, and once isBinding has been set
\* isBinding and isBound are never both clear.
C8_BindingBeforeAnyCall ==
    last.op = "bind" =>
        /\ \A i \in DOMAIN last.log :
              last.log[i].step \in UnbindCalls \cup BindCalls =>
                  HasBit(last.log[i].st, isBinding)
        /\ NeverBothClear(last.log)

\* C8: in a $bind that gets past the same-scope return, the calls $bind itself
\* makes into the expression (bind hook, assign) see isBinding set; the calls
\* of the $unbind of a rebind (evaluate, assign null, unbind hook) come before
\* isBinding is set and see isBound and isUnbinding set; once isBinding has
\* been set, isBinding and isBound are never both clear.
C8_BindingBeforeOwnCalls ==
    last.op = "bind" =>
        /\ \A i \in DOMAIN last.log :
              /\ last.log[i].step \in BindCalls => HasBit(last.log[i].st, isBinding)
              /\ last.log[i].step \in UnbindCalls =>
                    /\ ~HasBit(last.log[i].st, isBinding)
                    /\ HasBit(last.log[i].st, isBound)
                    /\ HasBit(last.log[i].st, isUnbinding)
                    /\ \A j \in At(last.log, "setBinding") : i < j
        /\ NeverBothClear(last.log)

\* a rebind has called the expression from its $unbind and from its own steps
C8_Witness ==
    /\ last.op = "bind" /\ ~last.threw
    /\ At(last.log, "evaluate") # {}
    /\ At(last.log, "assign") # {}
    /\ At(last.log, "clearBinding") # {}

Count(log, step) == Cardinality(At(log, step))
Bit(p) == IF p THEN 1 ELSE 0

\* C9: in calls that complete without error, isBound is set only by the
\* setBound statement of $bind and only when it is clear, and cleared only by
\* the last statement of $unbind and only when it is set, so that sets and
\* clears alternate.  When the expression has both hooks, a call makes one
\* more bind-hook call than unbind-hook calls exactly when it sets isBound
\* and one fewer exactly when it clears it (the difference, 0 at
\* construction, is 1 while isBound is set and 0 while it is clear), a bind
\* hook is outstanding exactly while isBound is set, and every unbind hook
\* gets the scope of the outstanding bind hook.
C9_BindUnbindPaired ==
    [][\A b \in Bindings :
         (last'.b = b /\ last'.op \in {"bind", "unbind"}) =>
            LET log == last'.log
            IN  /\ \A i \in At(log, "setBound") :
                      /\ i > 1
                      /\ ~HasBit(log[i - 1].st, isBound)
                      /\ HasBit(log[i].st, isBound)
                /\ \A i \in At(log, "clearBoundAndUnbinding") :
                      /\ i > 1
                      /\ HasBit(log[i - 1].st, isBound)
                      /\ ~HasBit(log[i].st, isBound)
                /\ \A i \in DOMAIN log :
                      LET before == IF i = 1 THEN state[b] ELSE log[i - 1].st
                      IN  HasBit(log[i].st, isBound) # HasBit(before, isBound) =>
                             log[i].step \in {"setBound", "clearBoundAndUnbinding"}
                /\ log # <<>> => state'[b] = log[Len(log)].st
                /\ (hasBindHook /\ hasUnbindHook) =>
                      /\ Count(log, "bindHook") - Count(log, "unbindHook")
                            = Bit(HasBit(state'[b], isBound)) - Bit(IsBound(b))
                      /\ (hookScope'[b] # Null) <=> HasBit(state'[b], isBound)
                      /\ HasBit(state'[b], isBound) => hookScope'[b] = scope'[b]
                      /\ \A i \in At(log, "unbindHook") :
                            hookScope[b] # Null /\ log[i].arg = hookScope[b]
                      /\ \A i \in At(log, "bindHook") :
                            hookScope[b] # Null =>
                               \E j \in At(log, "unbindHook") : j < i
      ]_vars

\* with both hooks, a rebind has called the unbind hook with the old scope and
\* the bind hook with the new one
C9_Witness ==
    /\ hasBindHook /\ hasUnbindHook
    /\ last.op = "bind" /\ ~last.threw
    /\ IsBound(last.b)
    /\ \E i \in At(last.log, "unbindHook"), j \in At(last.log, "bindHook") :
          /\ i < j
          /\ last.log[i].arg # last.log[j].arg
          /\ last.log[j].arg = hookScope[last.b]

\* the call that threw is the last statement of the log, and the binding is as
\* that call found it: the error was not caught, no later statement ran, no
\* statement ran twice
Propagated ==
    LET n == Len(last.log)
    IN  /\ n > 0
        /\ last.log[n].thrown
        /\ last.log[n].step \in UnbindCalls \cup BindCalls
        /\ \A i \in 1..(n - 1) : ~last.log[i].thrown
        /\ \A i, j \in 1..n : i # j => last.log[i].step # last.log[j].step
        /\ state[last.b] = last.log[n].st
        /\ scope[last.b] = last.log[n].sc

\* C10 as stated: an error thrown by the expression reaches the caller and no
\* later statement runs; a failed $bind leaves isBinding set, isBound clear and
\* $scope set to the new scope; a failed $unbind leaves isBound and
\* isUnbinding set and $scope as it was.
C10_FailedCallState ==
    last.threw =>
        /\ Propagated
        /\ last.op = "bind" =>
              /\ HasBit(state[last.b], isBinding)
              /\ ~HasBit(state[last.b], isBound)
              /\ scope[last.b] = last.arg
        /\ last.op = "unbind" =>
              /\ HasBit(state[last.b], isBound)
              /\ HasBit(state[last.b], isUnbinding)
              /\ scope[last.b] = last.log[1].sc
              /\ scope[last.b] \in Scopes

\* C10: an error thrown by the expression reaches the caller and no later
\* statement runs.  A $bind that fails in its own bind hook or assign leaves
\* isBinding set, isBound clear and $scope set to the new scope.  A $unbind
\* that fails, also the $unbind that $bind runs first when the binding is
\* bound to another scope, leaves isBound and isUnbinding set, isBinding clear
\* and $scope as it was.
C10_FailedCallStateByStep ==
    last.threw =>
        /\ Propagated
        /\ last.op \in {"bind", "unbind"}
        /\ last.log[Len(last.log)].step \in BindCalls =>
              /\ last.op = "bind"
              /\ HasBit(state[last.b], isBinding)
              /\ ~HasBit(state[last.b], isBound)
              /\ scope[last.b] = last.arg
        /\ last.log[Len(last.log)].step \in UnbindCalls =>
              /\ HasBit(state[last.b], isBound)
              /\ HasBit(state[last.b], isUnbinding)
              /\ ~HasBit(state[last.b], isBinding)
              /\ scope[last.b] = last.log[1].sc
              /\ scope[last.b] \in Scopes
              /\ last.op = "bind" => scope[last.b] # last.arg

\* a $bind to another scope has failed in the $unbind it runs first
C10_Witness ==
    /\ last.op = "bind" /\ last.threw
    /\ last.log[Len(last.log)].step \in UnbindCalls
    /\ state[last.b] = isBound + isUnbinding
    /\ scope[last.b] \in Scopes \ {last.arg}

ChangeCallbacks == {"handleChange", "observeProperty"}

\* C11: handleChange and observeProperty, in any state and with any arguments,
\* change neither $state nor $scope nor the expression's value, and make no
\* call into the expression (they run no statement and do not throw).  The
\* expression's value against a scope changes only in a $bind that assigns
\* target against that scope or in a $unbind (also the one a rebind runs
\* first) that found target there and assigns null.
C11_ChangeCallbacksInert ==
    [][/\ last'.op \in ChangeCallbacks =>
             /\ state' = state /\ scope' = scope /\ value' = value
             /\ hookScope' = hookScope
             /\ last'.log = <<>>
             /\ ~last'.threw
       /\ \A s \in Scopes :
             value'[s] # value[s] =>
                /\ last'.op \in {"bind", "unbind"}
                /\ \/ \E i \in At(last'.log, "assign") :
                         /\ last'.op = "bind"
                         /\ last'.log[i].arg = s
                         /\ ~last'.log[i].thrown
                         /\ value'[s] = target[last'.b]
                   \/ \E i \in At(last'.log, "assignNull") :
                         /\ last'.log[i].arg = s
                         /\ ~last'.log[i].thrown
                         /\ value[s] = target[last'.b]
                         /\ value'[s] = Null
      ]_vars

\* handleChange has been called on a bound binding with a value other than the
\* one the expression holds, and the expression still holds the target
C11_Witness ==
    /\ last.op = "handleChange"
    /\ IsBound(last.b) /\ scope[last.b] \in Scopes
    /\ value[scope[last.b]] = target[last.b]
    /\ last.arg # value[scope[last.b]]

\* the statements of $unbind in the order of the source
UnbindOrder ==
    <<"setUnbinding", "evaluate", "assignNull", "unbindHook", "clearScope",
      "clearBoundAndUnbinding">>
Rank(step) == CHOOSE k \in DOMAIN UnbindOrder : UnbindOrder[k] = step

\* the statements the latest call ran inside $unbind: all of a $unbind, and in
\* a $bind those before isBinding is set
UnbindPart ==
    LET sb == At(last.log, "setBinding")
    IN  IF last.op = "bind" /\ sb # {}
        THEN SubSeq(last.log, 1, (CHOOSE i \in sb : \A j \in sb : i <= j) - 1)
        ELSE last.log

BothSet(st) == HasBit(st, isBound) /\ HasBit(st, isUnbinding)
BothClear(st) == ~HasBit(st, isBound) /\ ~HasBit(st, isUnbinding)

\* C12: a $unbind that finds the binding bound (called directly or by a
\* rebind) runs its statements in this order: isUnbinding is set; evaluate;
\* assign null if evaluate returned target; the unbind hook if there is one,
\* with the scope still held; $scope = null; isBound and isUnbinding cleared
\* together.  Every call into the expression sees isBound and isUnbinding set
\* and is given the non-null scope the binding holds, and after every
\* statement the two bits are both set or both clear.  A throwing call ends
\* the sequence.
C12_UnbindStepOrder ==
    LET u == UnbindPart
        b == last.b
        n == Len(u)
    IN  (last.op \in {"bind", "unbind"} /\ u # <<>>) =>
          /\ \A i \in 1..n : u[i].step \in {UnbindOrder[k] : k \in DOMAIN UnbindOrder}
          /\ \A i, j \in 1..n : i < j => Rank(u[i].step) < Rank(u[j].step)
          /\ u[1].step = "setUnbinding"
          /\ n >= 2 /\ u[2].step = "evaluate"
          /\ At(u, "assignNull") # {} <=> (~u[2].thrown /\ u[2].v = target[b])
          /\ At(u, "unbindHook") # {} <=>
                (hasUnbindHook /\ \A i \in 1..n :
                                     Rank(u[i].step) < Rank("unbindHook") => ~u[i].thrown)
          /\ \A i \in 1..n :
                /\ u[i].thrown => i = n
                /\ u[i].step \in {"evaluate", "assignNull", "unbindHook"} =>
                      /\ BothSet(u[i].st)
                      /\ u[i].sc \in Scopes
                      /\ u[i].arg = u[i].sc
                      /\ u[i].sc = u[1].sc
                /\ u[i].step = "clearScope" => u[i].sc = Null /\ BothSet(u[i].st)
                /\ BothSet(u[i].st) \/ BothClear(u[i].st)
                /\ BothClear(u[i].st) <=> u[i].step = "clearBoundAndUnbinding"
          /\ ~u[n].thrown =>
                /\ n >= 4
                /\ u[n - 1].step = "clearScope"
                /\ u[n].step = "clearBoundAndUnbinding"
                /\ u[n].sc = Null
          /\ (last.op = "unbind" /\ ~last.threw) =>
                BothClear(state[b]) /\ scope[b] = Null

\* a $unbind has run all six statements
C12_Witness ==
    /\ last.op = "unbind"
    /\ ~last.threw
    /\ [i \in DOMAIN last.log |-> last.log[i].step] = UnbindOrder

\* no two bindings refer to the same target
DistinctTargets == \A a, c \in Bindings : a # c => target[a] # target[c]

\* C13: among bindings with pairwise distinct targets that share the
\* expression, after any sequence of calls none of which throws, the
\* expression evaluated against a scope s some $bind has assigned against is
\* the target of the binding whose $bind assigned against s most recently if
\* that binding has stayed bound to s, and null if it has been unbound from s
\* since; bindings bound to s earlier and still bound do not matter.
C13_LastWriterWins ==
    DistinctTargets =>
        \A s \in Scopes :
            LET w == lastAssigner[s]
            IN  w \in Bindings =>
                  IF IsBound(w) /\ scope[w] = s
                  THEN value[s] = target[w]
                  ELSE value[s] = Null

\* an earlier binding is still bound to s, the most recent assigner has been
\* unbound, and the expression is null
C13_Witness ==
    /\ DistinctTargets
    /\ \E s \in Scopes :
          /\ lastAssigner[s] \in Bindings
          /\ ~IsBound(lastAssigner[s])
          /\ \E a \in Bindings : a # lastAssigner[s] /\ IsBound(a) /\ scope[a] = s
          /\ value[s] = Null

\* the targets of the bindings bound to scope s
BoundTargets(s) == {target[b] : b \in {c \in Bindings : IsBound(c) /\ scope[c] = s}}

\* C14: after any sequence of calls none of which throws, rebinds included,
\* the expression evaluated against a scope s is its initial value, null, or
\* the target of a binding bound to s now; the target of a binding that has
\* been unbound from s is not left behind (it is held only if a binding bound
\* to s now refers to it too).
C14_NoDanglingReference ==
    \A s \in Scopes : value[s] \in {Undefined, Null} \cup BoundTargets(s)

\* a binding has just been unbound from s, by $unbind or by a rebind, after
\* $bind had assigned its target against s, and the expression holds the
\* target of another binding that is bound to s
C14_Witness ==
    /\ last.op \in {"bind", "unbind"}
    /\ At(last.log, "clearScope") # {}
    /\ LET s == last.log[1].sc
       IN  /\ s \in Scopes
           /\ ~(IsBound(last.b) /\ scope[last.b] = s)
           /\ \E c \in Bindings :
                 /\ c # last.b /\ IsBound(c) /\ scope[c] = s
                 /\ target[c] # target[last.b]
                 /\ value[s] = target[c]

\* the matcher accepts the thrown value: the regular expression matches, the
\* object's message equals the value's, the value is an instance of the class,
\* the validation function returns true
Accepts(actual, matcher) ==
    CASE matcher.kind = "regexp" -> matcher.arg = actual.message
      [] matcher.kind = "object" -> ~actual.prim /\ matcher.arg = actual.message
      [] matcher.kind = "class" -> InstanceOf(actual, matcher)
      [] matcher.kind = "validator" -> matcher.arg = "true"
      [] OTHER -> FALSE

\* the argument is a matcher (a string in its place is the message)
IsMatcher(x) == x.kind \notin {"undefined", "string"}

\* C15: throws returns normally only if fn threw, and raises a 'Missing
\* expected exception' failure whenever fn returned normally; doesNotThrow
\* returns normally only if fn returned normally, and whenever fn threw it
\* raises a 'Got unwanted exception' failure if no matcher is given or the
\* matcher accepts the thrown value, and the thrown value itself otherwise.
C15_ExpectationsSound ==
    LET a == assertion
    IN  /\ a.op = "throws" =>
              /\ ~a.result.threw => a.fn.throws
              /\ ~a.fn.throws =>
                    /\ a.result.threw
                    /\ a.result.exc = AssertionError("Missing expected exception")
        /\ a.op = "doesNotThrow" =>
              /\ ~a.result.threw => ~a.fn.throws
              /\ a.fn.throws =>
                    /\ a.result.threw
                    /\ a.result.exc =
                          IF ~IsMatcher(a.errorMatcher) \/ Accepts(a.fn.value, a.errorMatcher)
                          THEN AssertionError("Got unwanted exception")
                          ELSE a.fn.value


====
